---- MODULE Spec2Model ----
(***************************************************************************)
(* Model of batch_run.py: the batch driver that runs every container of    *)
(* run_data once per date, in series, and keeps at most max_stored         *)
(* finished containers.                                                    *)
(*                                                                         *)
(* One behaviour of the model is one execution of main() on one            *)
(* configuration document.  The configuration is chosen in Init; the       *)
(* outcome of every docker call and the reading of the clock are chosen by *)
(* the environment in the action that makes the call.                      *)
(***************************************************************************)
EXTENDS Integers, Sequences, FiniteSets, TLC

(***************************************************************************)
(* Bounds of the model.                                                    *)
(***************************************************************************)
MaxSpecs == 2       \* run_data holds 1..MaxSpecs entries
MaxCap   == 2       \* max_stored is 0..MaxCap, or absent
MaxDelta == 2       \* delta is {"days": 0..MaxDelta}
MaxYield == 4       \* dates taken from the generators in one execution
MaxRes   == 2       \* launches that can fall on one reading of the clock

\* math.inf, the default of max_stored: a value no list length exceeds.
inf == -1

(***************************************************************************)
(* Date strings and datetime.                                              *)
(*                                                                         *)
(* A date string in the default format "%Y-%m-%d" is modelled by its month *)
(* and day fields (the year is 2024 throughout) and by whether the fields  *)
(* are zero-padded: strptime accepts "2024-3-1" and "2024-03-01" alike,    *)
(* strftime always writes the padded form.  A datetime is the ordinal of   *)
(* the day in the year.                                                    *)
(***************************************************************************)
D(mo, dy) == [mo |-> mo, dy |-> dy, pad |-> TRUE]
U(mo, dy) == [mo |-> mo, dy |-> dy, pad |-> FALSE]

DaysInMonth == <<31, 29, 31, 30, 31, 30, 31, 31, 30, 31, 30, 31>>

RECURSIVE DaysBefore(_)
DaysBefore(mo) == IF mo <= 1 THEN 0 ELSE DaysBefore(mo - 1) + DaysInMonth[mo - 1]

\* strptime raises ValueError unless the fields name a day of the calendar.
Parses(s) == s.mo \in 1..12 /\ s.dy \in 1..DaysInMonth[s.mo]

strptime(s) == DaysBefore(s.mo) + s.dy

strftime(o) ==
    LET mo == CHOOSE m \in 1..12 : DaysBefore(m) < o /\ o <= DaysBefore(m) + DaysInMonth[m]
    IN  [mo |-> mo, dy |-> o - DaysBefore(mo), pad |-> TRUE]

\* Faulty variant (the step is subtracted)
relativedeltaBack(current, days) == current - days

\* current_date += relativedelta(days=delta)
relativedelta(current, days) == current + days

(***************************************************************************)
(* The configuration documents the model runs on.  A range string is the   *)
(* list of its parts between underscores.                                  *)
(***************************************************************************)
DatesPool ==
    { <<>>,
      << D(2, 29) >>,
      << D(2, 29), D(3, 1) >>,
      << D(2, 29), D(2, 29) >> }

RangesPool ==
    { <<>>,
      << <<D(2, 28), D(3, 1)>> >>,
      << <<D(2, 29), D(2, 29)>> >>,
      << <<D(3, 1), D(2, 29)>> >>,
      << <<D(3, 1), D(2, 29)>>, <<D(2, 29), D(3, 1)>> >>,
      << <<D(2, 28), D(2, 29)>>, <<D(2, 29), D(3, 1)>> >>,
      << <<D(2, 29), D(2, 29)>>, <<D(2, 29), D(2, 30)>> >>,
      << <<D(2, 30), D(3, 1)>> >>,
      << <<U(3, 1), U(3, 1)>> >>,
      << <<D(2, 29)>> >> }

Caps == (0..MaxCap) \cup {inf}

ExitCodes == {0, 1}

NoDate == [mo |-> 0, dy |-> 0, pad |-> TRUE]
NoName == [date |-> NoDate, ts |-> -1]

VARIABLES
    run_data,        \* main: number of entries of data['run_data']
    dates,           \* main: data.get('dates', [])
    date_ranges,     \* main: data.get('date_ranges', []), each split at '_'
    delta,           \* main: days of data.get('delta', {"days": 1})
    dry_run,         \* main: args.dry_run
    max_containers,  \* main: data.get('max_stored', inf)
    container_ids,   \* main: the names of the finished containers kept
    pc,              \* where the execution stands
    err,             \* the exception that ended the execution, or "none"
    phase,           \* "dates" in the first loop of main, "ranges" in the second
    i_date,          \* dates taken from `dates` so far
    i_range,         \* ranges taken from `date_ranges` so far
    current_date,    \* generate_dates: current_date
    end_date,        \* generate_dates: end_date
    date,            \* run_containers: date
    i_data,          \* run_containers: entries of run_data taken so far
    container_name,  \* run_containers: container_name
    removed_name,    \* run_containers: removed_name
    now,             \* environment: readings of the clock made so far
    res,             \* environment: readings that return one value of time_ns()
    records,         \* environment: names of the containers docker holds
    last_exit,       \* environment: exit code printed by the last docker wait
    n_dates,         \* history: dates handed to run_containers
    yielded,         \* history: dates the generators have yielded
    announced,       \* history: the lines printed, one per (date, entry)
    calls            \* history: the docker calls made, in order

config == <<run_data, dates, date_ranges, delta, dry_run, max_containers, res>>
locals == <<phase, i_date, i_range, current_date, end_date, date, i_data,
            container_name, removed_name>>
world  == <<now, records, last_exit>>
hist   == <<n_dates, yielded, announced, calls>>
vars   == <<config, locals, world, hist, container_ids, pc, err>>

Init ==
    /\ run_data \in 1..MaxSpecs
    /\ dates \in DatesPool
    /\ date_ranges \in RangesPool
    /\ delta \in 0..MaxDelta
    /\ dry_run \in BOOLEAN
    /\ max_containers \in Caps
    /\ res \in 1..MaxRes
    /\ container_ids = <<>>
    /\ pc = "dates_loop"
    /\ err = "none"
    /\ phase = "dates"
    /\ i_date = 0
    /\ i_range = 0
    /\ current_date = 0
    /\ end_date = 0
    /\ date = NoDate
    /\ i_data = 0
    /\ container_name = NoName
    /\ removed_name = NoName
    /\ now = 0
    /\ records = {}
    /\ last_exit = 0
    /\ n_dates = 0
    /\ yielded = 0
    /\ announced = <<>>
    /\ calls = <<>>

(***************************************************************************)
(* Helpers of run_containers.                                              *)
(***************************************************************************)
\* subprocess.run(..., check=True): a non-zero exit status of the docker
\* command raises CalledProcessError, which nothing catches.
\* Faulty variant (check=False, the exit status is ignored)
Unchecked(ok, next) == next

\* Faulty variant (the docker wait call is left out)
SkipWait(ok, next) == IF ~ok THEN "failed" ELSE IF next = "wait" THEN "spec_loop" ELSE next

check(ok, next) == IF ok THEN next ELSE "failed"

raised(ok, e) == IF ok THEN e ELSE "CalledProcessError"

\* Faulty variant (the timestamp is left out of the name)
ContainerNameOfDate(d, ts) == [date |-> d, ts |-> 0]

\* f"batch_{date}_{time_ns()}"
ContainerName(d, ts) == [date |-> d, ts |-> ts]

\* time_ns(): the clock never goes back, and `res` consecutive readings
\* return the same value.
time_ns == now \div res

\* Faulty variant (the comparison is off by one)
OverCapOffByOne(ids, cap) == IF cap = inf THEN FALSE ELSE Len(ids) > cap + 1

\* Faulty variant (an absent max_stored is taken as 0)
OverCapDefaultZero(ids, cap) == Len(ids) > (IF cap = inf THEN 0 ELSE cap)

\* len(container_ids) > max_containers
OverCap(ids, cap) == IF cap = inf THEN FALSE ELSE Len(ids) > cap

\* Faulty variants (pop() takes the newest name; the name just run is the one removed)
PopNewest(ids) == SubSeq(ids, 1, Len(ids) - 1)
JustRun(ids) == ids[Len(ids)]

\* container_ids.pop(0): the name popped, and the list left.
Popped(ids) == Head(ids)
AfterPop(ids) == Tail(ids)

unit == Len(announced)

Call(op, name, ok) == [op |-> op, unit |-> unit, name |-> name, ok |-> ok]

(***************************************************************************)
(* main: `for date in dates`.                                              *)
(***************************************************************************)
NextDate ==
    /\ pc = "dates_loop"
    /\ i_date < Len(dates)
    /\ i_date' = i_date + 1
    /\ date' = dates[i_date + 1]
    /\ i_data' = 0
    /\ n_dates' = n_dates + 1
    /\ pc' = "spec_loop"
    /\ UNCHANGED <<config, world, container_ids, err, phase, i_range, current_date,
                   end_date, container_name, removed_name, yielded, announced, calls>>

DatesDone ==
    /\ pc = "dates_loop"
    /\ i_date = Len(dates)
    /\ phase' = "ranges"
    /\ pc' = "ranges_loop"
    /\ UNCHANGED <<config, world, hist, container_ids, err, i_date, i_range,
                   current_date, end_date, date, i_data, container_name, removed_name>>

(***************************************************************************)
(* main: `for date_range in date_ranges`, parse_date_range and the start   *)
(* of generate_dates, which parses both ends before it yields anything.    *)
(***************************************************************************)
\* Faulty variant (end_date is not parsed before the first date is yielded)
StartParses(r) == Len(r) = 2 /\ Parses(r[1])

\* Faulty variant (a range whose start is after its end is refused)
OrderedRangeParses(r) ==
    Len(r) = 2 /\ Parses(r[1]) /\ Parses(r[2]) /\ strptime(r[1]) <= strptime(r[2])

\* parse_date_range unpacks exactly two parts; generate_dates parses both.
RangeParses(r) == Len(r) = 2 /\ Parses(r[1]) /\ Parses(r[2])

NextRange ==
    /\ pc = "ranges_loop"
    /\ i_range < Len(date_ranges)
    /\ i_range' = i_range + 1
    /\ LET r == date_ranges[i_range + 1] IN
         IF RangeParses(r)
         THEN /\ current_date' = strptime(r[1])
              /\ end_date' = strptime(r[2])
              /\ pc' = "gen_loop"
              /\ err' = err
         ELSE /\ pc' = "failed"
              /\ err' = "ValueError"
              /\ UNCHANGED <<current_date, end_date>>
    /\ UNCHANGED <<config, world, hist, container_ids, phase, i_date, date, i_data,
                   container_name, removed_name>>

RangesDone ==
    /\ pc = "ranges_loop"
    /\ i_range = Len(date_ranges)
    /\ pc' = "done"
    /\ UNCHANGED <<config, locals, world, hist, container_ids, err>>

(***************************************************************************)
(* generate_dates: `while current_date <= end_date: yield ...`.            *)
(***************************************************************************)
\* Faulty variant (the end date is excluded)
BeforeEnd(current, end) == current < end

\* while current_date <= end_date
InRange(current, end) == current <= end

Yield ==
    /\ pc = "gen_loop"
    /\ InRange(current_date, end_date)
    /\ yielded < MaxYield
    /\ date' = strftime(current_date)
    /\ i_data' = 0
    /\ yielded' = yielded + 1
    /\ n_dates' = n_dates + 1
    /\ pc' = "spec_loop"
    /\ UNCHANGED <<config, world, container_ids, err, phase, i_date, i_range,
                   current_date, end_date, container_name, removed_name, announced, calls>>

GenDone ==
    /\ pc = "gen_loop"
    /\ ~InRange(current_date, end_date)
    /\ pc' = "ranges_loop"
    /\ UNCHANGED <<config, locals, world, hist, container_ids, err>>

(***************************************************************************)
(* run_containers: `for data in run_data`.                                 *)
(***************************************************************************)
\* Faulty variant (the dry-run flag is not consulted)
AlwaysLaunch == "launch"

\* Faulty variant (a date already run with this entry is not run again)
LaunchUnlessSeen ==
    IF dry_run \/ (\E i \in 1..Len(announced) :
                       announced[i].date = date /\ announced[i].spec = i_data + 1)
    THEN "spec_loop" ELSE "launch"

\* `if not dry_run:` the docker calls are made only in a live run.
AfterAnnounce == IF dry_run THEN "spec_loop" ELSE "launch"

\* Faulty variant (the line is printed in dry-run mode only)
AnnounceDryRunOnly ==
    /\ pc = "spec_loop"
    /\ i_data < run_data
    /\ i_data' = i_data + 1
    /\ announced' = IF dry_run
                    THEN Append(announced,
                            [date |-> date, spec |-> i_data + 1, dateNo |-> n_dates,
                             phase |-> phase,
                             idx |-> IF phase = "dates" THEN i_date ELSE i_range,
                             ord |-> IF phase = "dates" THEN 0 ELSE current_date])
                    ELSE announced
    /\ pc' = AfterAnnounce
    /\ UNCHANGED <<config, world, container_ids, err, phase, i_date, i_range, current_date,
                   end_date, date, container_name, removed_name, n_dates, yielded, calls>>

Announce ==
    /\ pc = "spec_loop"
    /\ i_data < run_data
    /\ i_data' = i_data + 1
    /\ announced' = Append(announced,
            [date |-> date, spec |-> i_data + 1, dateNo |-> n_dates, phase |-> phase,
             idx |-> IF phase = "dates" THEN i_date ELSE i_range,
             ord |-> IF phase = "dates" THEN 0 ELSE current_date])
    /\ pc' = AfterAnnounce
    /\ UNCHANGED <<config, world, container_ids, err, phase, i_date, i_range, current_date,
                   end_date, date, container_name, removed_name, n_dates, yielded, calls>>

\* run_containers returns; in the second loop the generator is resumed and
\* advances current_date.
Return ==
    /\ pc = "spec_loop"
    /\ i_data = run_data
    /\ IF phase = "dates"
       THEN /\ pc' = "dates_loop"
            /\ UNCHANGED current_date
       ELSE /\ pc' = "gen_loop"
            /\ current_date' = relativedelta(current_date, delta)
    /\ UNCHANGED <<config, world, hist, container_ids, err, phase, i_date, i_range,
                   end_date, date, i_data, container_name, removed_name>>

\* docker run -d --name=<container_name> ...: docker refuses a name it holds
\* a container for; a run that fails may or may not leave a container.
Launch ==
    /\ pc = "launch"
    /\ LET name == ContainerName(date, time_ns) IN
       /\ container_name' = name
       /\ now' = now + 1
       /\ \E ok \in BOOLEAN, created \in BOOLEAN :
            /\ ok => created
            /\ created => name \notin records
            /\ records' = IF created THEN records \cup {name} ELSE records
            /\ calls' = Append(calls, Call("launch", name, ok))
            /\ pc' = check(ok, "wait")
            /\ err' = raised(ok, err)
    /\ UNCHANGED <<config, container_ids, phase, i_date, i_range, current_date, end_date,
                   date, i_data, removed_name, last_exit, n_dates, yielded, announced>>

\* Faulty variant (the name is appended before docker wait is called)
WaitAppendFirst ==
    /\ pc = "wait"
    /\ \E ok \in BOOLEAN, code \in ExitCodes :
         LET ids == Append(container_ids, container_name) IN
         /\ calls' = Append(calls, Call("wait", container_name, ok))
         /\ err' = raised(ok, err)
         /\ last_exit' = IF ok THEN code ELSE last_exit
         /\ IF ok /\ OverCap(ids, max_containers)
            THEN /\ removed_name' = Popped(ids)
                 /\ container_ids' = AfterPop(ids)
                 /\ pc' = check(ok, "remove")
            ELSE /\ removed_name' = removed_name
                 /\ container_ids' = ids
                 /\ pc' = check(ok, "spec_loop")
    /\ UNCHANGED <<config, phase, i_date, i_range, current_date, end_date, date, i_data,
                   container_name, now, records, n_dates, yielded, announced>>

\* docker wait <container_name>: blocks until the container stops and prints
\* its exit code; the exit status of the docker command itself is non-zero
\* only when the wait could not be done.  On success the name is appended
\* and, over the cap, the oldest name is popped.
Wait ==
    /\ pc = "wait"
    /\ \E ok \in BOOLEAN, code \in ExitCodes :
         /\ calls' = Append(calls, Call("wait", container_name, ok))
         /\ err' = raised(ok, err)
         /\ IF ok
            THEN LET ids == Append(container_ids, container_name) IN
                 /\ last_exit' = code
                 /\ IF OverCap(ids, max_containers)
                    THEN /\ removed_name' = Popped(ids)
                         /\ container_ids' = AfterPop(ids)
                         /\ pc' = check(ok, "remove")
                    ELSE /\ removed_name' = removed_name
                         /\ container_ids' = ids
                         /\ pc' = check(ok, "spec_loop")
            ELSE /\ pc' = check(ok, "spec_loop")
                 /\ UNCHANGED <<last_exit, removed_name, container_ids>>
    /\ UNCHANGED <<config, phase, i_date, i_range, current_date, end_date, date, i_data,
                   container_name, now, records, n_dates, yielded, announced>>

\* docker rm <removed_name>
Remove ==
    /\ pc = "remove"
    /\ \E ok \in BOOLEAN :
         /\ ok => removed_name \in records
         /\ records' = IF ok THEN records \ {removed_name} ELSE records
         /\ calls' = Append(calls, Call("remove", removed_name, ok))
         /\ pc' = check(ok, "spec_loop")
         /\ err' = raised(ok, err)
    /\ UNCHANGED <<config, locals, container_ids, now, last_exit, n_dates, yielded,
                   announced>>

Next ==
    \/ NextDate
    \/ DatesDone
    \/ NextRange
    \/ RangesDone
    \/ Yield
    \/ GenDone
    \/ Announce
    \/ Return
    \/ Launch
    \/ Wait
    \/ Remove

Spec == Init /\ [][Next]_vars


(***************************************************************************)
(* Operators the properties are stated with.                               *)
(***************************************************************************)
CallsOf(op) == SelectSeq(calls, LAMBDA c : c.op = op)

NamesOf(cs) == [i \in 1..Len(cs) |-> cs[i].name]

\* Names of the runs that were launched and waited for with success.
Finished == NamesOf(SelectSeq(calls, LAMBDA c : c.op = "wait" /\ c.ok))

\* Names docker was asked to remove.
Removals == NamesOf(CallsOf("remove"))

IsPrefix(s, t) == Len(s) <= Len(t) /\ \A i \in 1..Len(s) : s[i] = t[i]

Max(a, b) == IF a >= b THEN a ELSE b

\* A range whose start or end string does not parse.
InvalidDate(r) == Len(r) = 2 /\ (~Parses(r[1]) \/ ~Parses(r[2]))

WellFormed(r) == Len(r) = 2 /\ Parses(r[1]) /\ Parses(r[2])

(***************************************************************************)
(* generate_dates and the two loops of main as functions of the            *)
(* configuration: the dates a range expands to under a step of at least    *)
(* one day, the whole date sequence, and the (date, entry) units in the    *)
(* order main reaches them.                                                *)
(***************************************************************************)
RECURSIVE GenerateDates(_, _, _)
GenerateDates(current, end, days) ==
    IF current > end THEN <<>>
    ELSE <<strftime(current)>> \o GenerateDates(current + days, end, days)

RECURSIVE ExpandRanges(_)
ExpandRanges(rs) ==
    IF rs = <<>> THEN <<>>
    ELSE GenerateDates(strptime(Head(rs)[1]), strptime(Head(rs)[2]), delta)
            \o ExpandRanges(Tail(rs))

AllDates == dates \o ExpandRanges(date_ranges)

Plan ==
    LET all == AllDates
    IN  [k \in 1..(Len(all) * run_data) |->
            [date |-> all[((k - 1) \div run_data) + 1], spec |-> ((k - 1) % run_data) + 1]]

\* A configuration whose ranges all parse and whose step advances the date.
ValidConfig == delta > 0 /\ \A k \in 1..Len(date_ranges) : WellFormed(date_ranges[k])

Announcements ==
    [i \in 1..Len(announced) |-> [date |-> announced[i].date, spec |-> announced[i].spec]]

C2_AbortOnFirstFailure ==
    \A i \in 1..Len(calls) :
        ~calls[i].ok =>
            /\ i = Len(calls)
            /\ calls[i].unit = Len(announced)
            /\ pc = "failed"
            /\ err = "CalledProcessError"

\* The launcher fails on the 2nd of 5 units; units 3 to 5 are not attempted.
C2_Witness ==
    /\ run_data = 1
    /\ dates = << D(2, 29), D(3, 1) >>
    /\ date_ranges = << <<D(2, 28), D(3, 1)>> >>
    /\ delta = 1
    /\ pc = "failed"
    /\ Len(announced) = 2
    /\ Len(calls) = 3
    /\ calls[3].op = "launch" /\ ~calls[3].ok

(***************************************************************************)
(* C3 (as claimed): if the start or end string of any configured range     *)
(* does not parse, no run is launched at all in that batch.                *)
(***************************************************************************)
C3_NoRunWithInvalidDate ==
    (\E k \in 1..Len(date_ranges) : InvalidDate(date_ranges[k]))
        => CallsOf("launch") = <<>>

(***************************************************************************)
(* C3 (amended): a range whose start or end string does not parse aborts   *)
(* the batch with ValueError when main reaches it: no unit is announced or *)
(* launched for a date of that range or of a later range.  Units of the    *)
(* explicit dates and of the ranges before it have been run by then.       *)
(***************************************************************************)
C3_NoRunFromInvalidRange ==
    \A k \in 1..Len(date_ranges) :
        InvalidDate(date_ranges[k]) =>
            /\ \A i \in 1..Len(announced) :
                   announced[i].phase = "ranges" => announced[i].idx < k
            /\ i_range >= k => (pc = "failed" /\ err = "ValueError" /\ i_range = k)

\* The batch has aborted on the malformed second range after launching runs
\* for the first.
C3_Witness ==
    /\ pc = "failed"
    /\ err = "ValueError"
    /\ i_range = 2
    /\ InvalidDate(date_ranges[2])
    /\ \E i \in 1..Len(calls) : calls[i].op = "launch" /\ announced[calls[i].unit].phase = "ranges"

(***************************************************************************)
(* C4: dry-run: no docker call is made, RunHistory stays empty and docker  *)
(* holds no container; for a valid configuration the lines announced are   *)
(* always a prefix of the planned (date, RunSpec) sequence, in dry-run and *)
(* in live mode alike, and a dry run ends having announced every planned   *)
(* pair exactly once.                                                      *)
(***************************************************************************)
C4_DryRun ==
    /\ ValidConfig =>
         LET plan == Plan
             said == Announcements
         IN  /\ IsPrefix(said, plan)
             /\ dry_run => (pc # "failed" /\ (pc = "done" => said = plan))
    /\ dry_run =>
         /\ calls = <<>>
         /\ container_ids = <<>>
         /\ records = {}

\* A dry run has finished a plan of at least four units.
C4_Witness ==
    /\ dry_run
    /\ ValidConfig
    /\ pc = "done"
    /\ Len(announced) >= 4
    /\ dates # <<>> /\ date_ranges # <<>>

(***************************************************************************)
(* C5: processing order.  The first unit is entry 1 of the first date.     *)
(* After a unit comes the next entry of run_data for the same date, or,    *)
(* when the date's entries are all done, entry 1 of the next date.  The    *)
(* next date is the next explicit date while there is one, then the dates  *)
(* of the ranges: the same range one step later, or the start of a later   *)
(* range.  Explicit dates are passed verbatim.  Every launch is for the    *)
(* unit announced last, and launches follow the units' order.              *)
(***************************************************************************)
C5_NextDate(a, b) ==
    \/ /\ a.phase = "dates" /\ b.phase = "dates"
       /\ b.idx = a.idx + 1
    \/ /\ a.phase = "dates" /\ b.phase = "ranges"
       /\ a.idx = Len(dates)
       /\ b.ord = strptime(date_ranges[b.idx][1])
    \/ /\ a.phase = "ranges" /\ b.phase = "ranges"
       /\ \/ b.idx = a.idx /\ b.ord = a.ord + delta
          \/ b.idx > a.idx /\ b.ord = strptime(date_ranges[b.idx][1])

C5_ProcessingOrder ==
    /\ announced # <<>> =>
         /\ announced[1].spec = 1 /\ announced[1].dateNo = 1
         /\ IF dates # <<>>
            THEN announced[1].phase = "dates" /\ announced[1].idx = 1
            ELSE announced[1].phase = "ranges"
                    /\ announced[1].ord = strptime(date_ranges[announced[1].idx][1])
    /\ \A i \in 1..Len(announced) :
         LET a == announced[i] IN
         /\ a.phase = "dates" => a.date = dates[a.idx]
         /\ a.phase = "ranges" =>
              /\ a.date = strftime(a.ord)
              /\ a.ord <= strptime(date_ranges[a.idx][2])
         /\ i < Len(announced) =>
              LET b == announced[i + 1] IN
              \/ b.dateNo = a.dateNo /\ b.spec = a.spec + 1 /\ b.date = a.date
                   /\ b.phase = a.phase /\ b.idx = a.idx /\ b.ord = a.ord
              \/ b.dateNo = a.dateNo + 1 /\ a.spec = run_data /\ b.spec = 1
                   /\ C5_NextDate(a, b)
    /\ \A i \in 1..Len(calls) :
         /\ calls[i].op = "launch" => calls[i].name.date = announced[calls[i].unit].date
         /\ i < Len(calls) => calls[i].unit <= calls[i + 1].unit
         /\ (i < Len(calls) /\ calls[i + 1].op = "launch") => calls[i].unit < calls[i + 1].unit

\* Explicit dates A, B and a range expanding to C, D have all been processed
\* live with two entries in run_data.
C5_Witness ==
    /\ ~dry_run
    /\ run_data = 2
    /\ dates = << D(2, 29), D(3, 1) >>
    /\ date_ranges = << <<D(2, 28), D(3, 1)>> >>
    /\ delta = 2
    /\ pc = "done"
    /\ Len(announced) = 8
    /\ Len(CallsOf("launch")) = 8

(***************************************************************************)
(* C6: FIFO pruning in a live batch.  With n runs finished (launched and   *)
(* waited for) and cap c, the removal requests made, followed by the one   *)
(* about to be made, are the first max(0, n - c) finished names in launch  *)
(* order, and RunHistory is the remaining, last min(n, c) names in launch  *)
(* order; without a cap nothing is removed.  Every removal request comes   *)
(* right after the successful wait of the same unit.                       *)
(***************************************************************************)
C6_Pending == IF pc = "remove" THEN <<removed_name>> ELSE <<>>

C6_FifoPruning ==
    LET n == Len(Finished)
        k == IF max_containers = inf THEN 0 ELSE Max(0, n - max_containers)
    IN  /\ Removals \o C6_Pending = SubSeq(Finished, 1, k)
        /\ container_ids = SubSeq(Finished, k + 1, n)
        /\ \A i \in 1..Len(calls) :
               calls[i].op = "remove" =>
                   /\ i > 1
                   /\ calls[i - 1].op = "wait" /\ calls[i - 1].ok
                   /\ calls[i - 1].unit = calls[i].unit

\* max_stored = 2 and runs r1, r2, r3: one removal, of r1; r2, r3 retained.
C6_Witness ==
    /\ max_containers = 2
    /\ Len(Finished) = 3
    /\ Removals = << Finished[1] >>
    /\ container_ids = << Finished[2], Finished[3] >>
    /\ calls[Len(calls)].op = "remove" /\ calls[Len(calls)].ok

(***************************************************************************)
(* C7: every name in RunHistory is the name of a container docker still    *)
(* holds: it was launched with success and no removal of it has succeeded  *)
(* since; and no name is in RunHistory twice.                              *)
(***************************************************************************)
C7_HistoryMatchesRecords ==
    /\ \A i \in 1..Len(container_ids) :
         /\ container_ids[i] \in records
         /\ \E l \in 1..Len(calls) :
              /\ calls[l].op = "launch" /\ calls[l].ok
              /\ calls[l].name = container_ids[i]
              /\ \A r \in (l + 1)..Len(calls) :
                   ~(calls[r].op = "remove" /\ calls[r].ok
                        /\ calls[r].name = container_ids[i])
    /\ \A i, j \in 1..Len(container_ids) :
         i # j => container_ids[i] # container_ids[j]

\* Two runs are retained after an older one was removed.
C7_Witness ==
    /\ Len(container_ids) = 2
    /\ \E r \in 1..Len(calls) : calls[r].op = "remove" /\ calls[r].ok
    /\ Cardinality(records) = 2

(***************************************************************************)
(* C8 (as claimed): a run that terminates in error makes the Wait step     *)
(* fail: once docker wait has reported a non-zero exit code of the         *)
(* container, the batch is in the failure state.                           *)
(***************************************************************************)
C8_ErrorExitAborts ==
    last_exit # 0 => pc = "failed"

(***************************************************************************)
(* C9 (as claimed): no two launches of a batch are given the same name.    *)
(***************************************************************************)
C9_UniqueNames ==
    LET launches == CallsOf("launch")
    IN  \A i, j \in 1..Len(launches) :
            i < j => launches[i].name # launches[j].name

(***************************************************************************)
(* C9 (amended): the names of the launches of a batch are pairwise         *)
(* distinct when every launch reads a later timestamp than the launch      *)
(* before it.  (The name is made of the date string and the timestamp, not *)
(* of the task: two launches for the same date string that read the same   *)
(* timestamp get the same name.)                                           *)
(***************************************************************************)
C9_UniqueNamesWhenClockAdvances ==
    LET launches == CallsOf("launch")
    IN  \A i, j \in 1..Len(launches) :
            i < j =>
                /\ res = 1 => launches[i].name # launches[j].name
                /\ launches[i].name = launches[j].name =>
                      announced[launches[i].unit].date = announced[launches[j].unit].date

\* Three launches for the same date string under an advancing clock.
C9_Witness ==
    /\ res = 1
    /\ LET launches == CallsOf("launch")
       IN  \E i, j, k \in 1..Len(launches) :
             /\ i < j /\ j < k
             /\ launches[i].name.date = launches[j].name.date
             /\ launches[j].name.date = launches[k].name.date
             /\ launches[i].unit + 1 = launches[j].unit

(***************************************************************************)
(* C10 (as claimed): date expansion is finite.  A range of whole days      *)
(* holds (end - start + 1) days, so a generator that moves towards end     *)
(* yields no more dates than that for a range; one that yields more is     *)
(* not moving, and never ends.                                             *)
(***************************************************************************)
C10_YieldedFrom(k) ==
    Cardinality({i \in 1..Len(announced) :
        announced[i].phase = "ranges" /\ announced[i].idx = k /\ announced[i].spec = 1})

C10_FiniteExpansion ==
    \A k \in 1..Len(date_ranges) :
        WellFormed(date_ranges[k]) =>
            C10_YieldedFrom(k) <=
                Max(0, strptime(date_ranges[k][2]) - strptime(date_ranges[k][1]) + 1)

(***************************************************************************)
(* C11: strictly sequential execution.  At most one run is in flight: the  *)
(* launches that succeeded outnumber the waits that returned by at most    *)
(* one, and by one only while the batch stands at the wait (or has aborted *)
(* on it).  A launch is never made right after a launch: the call before   *)
(* it is the successful wait, or the successful removal, of the unit       *)
(* before; and every wait is for the run launched by the call before it.   *)
(***************************************************************************)
C11_InFlight ==
    Len(SelectSeq(calls, LAMBDA c : c.op = "launch" /\ c.ok)) - Len(Finished)

C11_Sequential ==
    /\ C11_InFlight \in {0, 1}
    /\ C11_InFlight = 1 =>
         \/ pc = "wait"
         \/ pc = "failed" /\ calls[Len(calls)].op = "wait"
    /\ \A i \in 1..Len(calls) :
         /\ (calls[i].op = "launch" /\ i > 1) =>
              /\ calls[i - 1].op \in {"wait", "remove"}
              /\ calls[i - 1].ok
              /\ calls[i - 1].unit < calls[i].unit
         /\ calls[i].op = "wait" =>
              /\ i > 1
              /\ calls[i - 1].op = "launch" /\ calls[i - 1].ok
              /\ calls[i - 1].name = calls[i].name
              /\ calls[i - 1].unit = calls[i].unit

\* A third run is in flight after two runs were launched and waited for.
C11_Witness ==
    /\ pc = "wait"
    /\ Len(Finished) = 2
    /\ C11_InFlight = 1
    /\ run_data = 2

(***************************************************************************)
(* C12 (as claimed): a descriptor with start = end = D yields exactly [D]: *)
(* under a step that advances, the range yields at most one date, and the  *)
(* date string it yields is the string D of the configuration.             *)
(***************************************************************************)
C12_From(k) ==
    SelectSeq(announced, LAMBDA a : a.phase = "ranges" /\ a.idx = k /\ a.spec = 1)

C12_Exhausted(k) ==
    i_range > k \/ (i_range = k /\ pc \in {"ranges_loop", "done"})

C13_Backward(r) == WellFormed(r) /\ strptime(r[1]) > strptime(r[2])

C13_EmptyRangeIsNoError ==
    \A k \in 1..Len(date_ranges) :
        C13_Backward(date_ranges[k]) =>
            /\ \A i \in 1..Len(announced) :
                   ~(announced[i].phase = "ranges" /\ announced[i].idx = k)
            /\ i_range = k =>
                   /\ pc \in {"gen_loop", "ranges_loop", "done"}
                   /\ err = "none"
                   /\ pc = "done" => k = Len(date_ranges)

\* After the empty first range the batch ran the second range and is done.
C13_Witness ==
    /\ pc = "done"
    /\ err = "none"
    /\ ~dry_run
    /\ Len(date_ranges) = 2
    /\ C13_Backward(date_ranges[1])
    /\ \E i \in 1..Len(calls) :
         calls[i].op = "launch" /\ announced[calls[i].unit].idx = 2
            /\ announced[calls[i].unit].phase = "ranges"

(***************************************************************************)
(* C14: no deduplication, exactly-once processing.  In a live batch the    *)
(* j-th launch is the launch of the j-th unit announced and the j-th wait  *)
(* is the wait of the j-th unit: every unit reached gets one launch and,   *)
(* once launched with success, one wait.  A batch fails only on a docker   *)
(* call that failed or on a range that does not parse; a batch on a valid  *)
(* configuration that has not failed can always go on until it is done;    *)
(* and a batch that is done has made one launch and one wait, all          *)
(* successful, for every occurrence of a date in the whole date sequence   *)
(* and every entry of run_data.                                            *)
(***************************************************************************)
C14_ExactlyOnce ==
    ~dry_run =>
        LET launches == CallsOf("launch")
            waits    == CallsOf("wait")
        IN  /\ \A j \in 1..Len(launches) : launches[j].unit = j
            /\ \A j \in 1..Len(waits) : waits[j].unit = j
            /\ Len(launches) = Len(announced) - (IF pc = "launch" THEN 1 ELSE 0)
            /\ Len(waits) = Len(launches)
                    - (IF pc = "wait" \/ (pc = "failed" /\ calls # <<>>
                                            /\ calls[Len(calls)].op = "launch")
                       THEN 1 ELSE 0)
            /\ pc = "failed" =>
                  \/ err = "CalledProcessError" /\ ~calls[Len(calls)].ok
                  \/ err = "ValueError" /\ ~WellFormed(date_ranges[i_range])
            /\ (ValidConfig /\ pc \notin {"done", "failed"}) => ENABLED Next
            /\ pc = "done" =>
                  /\ err = "none"
                  /\ \A i \in 1..Len(calls) : calls[i].ok
                  /\ Len(launches) = Len(AllDates) * run_data
                  /\ Len(waits) = Len(AllDates) * run_data

\* 02-29 is listed twice, and the overlapping ranges yield it twice more:
\* six date occurrences and two entries give twelve launches.
C14_Witness ==
    /\ ~dry_run
    /\ pc = "done"
    /\ run_data = 2
    /\ delta = 1
    /\ dates = << D(2, 29), D(2, 29) >>
    /\ date_ranges = << <<D(2, 28), D(2, 29)>>, <<D(2, 29), D(3, 1)>> >>
    /\ Len(CallsOf("launch")) = 12

(***************************************************************************)
(* C15: with max_stored absent no removal is ever requested or pending,    *)
(* and RunHistory holds, in launch order, the name of every run that was   *)
(* launched and waited for with success; at the end of the batch that is   *)
(* every run of the batch, and docker still holds them all.                *)
(***************************************************************************)
C15_DefaultCapKeepsAll ==
    max_containers = inf =>
        /\ CallsOf("remove") = <<>>
        /\ pc # "remove"
        /\ container_ids = Finished
        /\ \A i \in 1..Len(container_ids) : container_ids[i] \in records
        /\ (pc = "done" /\ ~dry_run) => Len(container_ids) = Len(announced)

\* A batch of four runs is done with all four names kept.
C15_Witness ==
    /\ max_containers = inf
    /\ pc = "done"
    /\ Len(container_ids) = 4
    /\ Cardinality(records) = 4

(***************************************************************************)
(* C16: no rollback on failure.  The step that aborts the batch removes no *)
(* container and leaves RunHistory as it was: every container docker held  *)
(* before the failing call it holds after it, the retained runs among      *)
(* them; and no step at all (so no removal) is taken after the abort.      *)
(***************************************************************************)
C16_NoRollback ==
    [][ /\ pc # "failed"
        /\ pc' = "failed" =>
             /\ records \subseteq records'
             /\ container_ids' = container_ids
             /\ \A i \in 1..Len(container_ids) : container_ids[i] \in records'
      ]_vars

\* The batch has aborted on a failed wait with two runs retained, after an
\* older run had been pruned.
C16_Witness ==
    /\ pc = "failed"
    /\ err = "CalledProcessError"
    /\ calls[Len(calls)].op = "wait"
    /\ Len(container_ids) = 2
    /\ \A i \in 1..Len(container_ids) : container_ids[i] \in records
    /\ Len(CallsOf("remove")) = 1

(***************************************************************************)
(* C17: in live mode every unit reached is announced once, before its      *)
(* launch: the announcements are of successive, distinct units; the j-th   *)
(* launch is made when exactly j lines have been printed, and it is for    *)
(* the date of the j-th line; at most the last line has no launch yet, and *)
(* only while the batch is about to launch it.  A launch that failed was   *)
(* announced like any other.                                               *)
(***************************************************************************)
C17_AnnouncedBeforeLaunch ==
    ~dry_run =>
        LET launches == CallsOf("launch") IN
        /\ \A i \in 1..(Len(announced) - 1) :
             \/ announced[i + 1].dateNo > announced[i].dateNo
             \/ /\ announced[i + 1].dateNo = announced[i].dateNo
                /\ announced[i + 1].spec > announced[i].spec
        /\ \A j \in 1..Len(launches) :
             /\ launches[j].unit = j
             /\ j <= Len(announced)
             /\ launches[j].name.date = announced[j].date
        /\ IF pc = "launch"
           THEN Len(announced) = Len(launches) + 1
           ELSE Len(announced) = Len(launches)

\* The launch of the third unit failed; three lines had been printed.
C17_Witness ==
    /\ ~dry_run
    /\ pc = "failed"
    /\ err = "CalledProcessError"
    /\ calls[Len(calls)].op = "launch"
    /\ calls[Len(calls)].unit = 3
    /\ Len(announced) = 3

(***************************************************************************)
(* C18: the order of the docker calls of one unit, and what is removed.    *)
(* Every wait comes right after the successful launch of the same unit and *)
(* every remove right after the successful wait of the same unit, so a     *)
(* unit makes its calls in the order launch, wait, at most one remove; and *)
(* a remove targets a name whose launch and wait succeeded before it.      *)
(***************************************************************************)
C18_CountBefore(i, op, name) ==
    Cardinality({r \in 1..i : calls[r].op = op /\ calls[r].ok /\ calls[r].name = name})

C18_OrderAndTargets ==
    \A i \in 1..Len(calls) :
        /\ (calls[i].op = "launch" /\ i > 1) =>
             calls[i - 1].unit < calls[i].unit
        /\ calls[i].op = "wait" =>
             /\ i > 1
             /\ calls[i - 1].op = "launch" /\ calls[i - 1].ok
             /\ calls[i - 1].unit = calls[i].unit
        /\ calls[i].op = "remove" =>
             /\ i > 1
             /\ calls[i - 1].op = "wait" /\ calls[i - 1].ok
             /\ calls[i - 1].unit = calls[i].unit
             /\ \E l \in 1..(i - 2) :
                  /\ calls[l].op = "launch" /\ calls[l].ok
                  /\ calls[l + 1].op = "wait" /\ calls[l + 1].ok
                  /\ calls[l].name = calls[i].name
                  /\ calls[l + 1].name = calls[i].name

(***************************************************************************)
(* C18 (as claimed): the above, and no identifier is the target of more    *)
(* than one removal request.                                               *)
(***************************************************************************)
C18_OneRemovalPerIdentifier ==
    /\ C18_OrderAndTargets
    /\ LET removes == CallsOf("remove")
       IN  \A i, j \in 1..Len(removes) : i < j => removes[i].name # removes[j].name

(***************************************************************************)
(* C18 (amended): the above, and no finished run is the target of more     *)
(* than one removal request: the requests made for a name never outnumber  *)
(* the runs of that name that were waited for with success before the      *)
(* request.  No name is targeted twice when every launch reads a later     *)
(* timestamp than the one before; when two launches read the same          *)
(* timestamp for the same date string they share a name, and with          *)
(* max_stored = 0 that name is removed once for each of the two runs.      *)
(***************************************************************************)
C18_OneRemovalPerRun ==
    /\ C18_OrderAndTargets
    /\ \A i \in 1..Len(calls) :
         calls[i].op = "remove" =>
             Cardinality({r \in 1..i : calls[r].op = "remove" /\ calls[r].name = calls[i].name})
                 <= C18_CountBefore(i - 1, "wait", calls[i].name)
    /\ res = 1 =>
         LET removes == CallsOf("remove")
         IN  \A i, j \in 1..Len(removes) : i < j => removes[i].name # removes[j].name

\* Three runs of three units with max_stored = 1: two removals were made,
\* each right after the wait of its unit.
C18_Witness ==
    /\ max_containers = 1
    /\ pc = "spec_loop"
    /\ Len(calls) = 8
    /\ Len(CallsOf("remove")) = 2
    /\ calls[8].op = "remove" /\ calls[8].ok

(***************************************************************************)
(* C19: a failed launch or a failed wait leaves RunHistory unchanged.  The *)
(* step that makes the failing call appends nothing to container_ids and   *)
(* pops nothing from it, makes no removal pending, and puts the batch in   *)
(* the failure state, in which no further step (so no removal request) is  *)
(* taken.                                                                  *)
(***************************************************************************)
C19_FailingCall ==
    /\ Len(calls') = Len(calls) + 1
    /\ calls'[Len(calls')].op \in {"launch", "wait"}
    /\ ~calls'[Len(calls')].ok

C19_FailedRunNotRecorded ==
    [][ /\ C19_FailingCall =>
             /\ container_ids' = container_ids
             /\ removed_name' = removed_name
             /\ pc' = "failed"
             /\ CallsOf("remove")' = CallsOf("remove")
        /\ pc = "failed" => FALSE
      ]_vars

\* The wait of the third run failed: the two earlier runs are the history.
C19_Witness ==
    /\ pc = "failed"
    /\ err = "CalledProcessError"
    /\ calls[Len(calls)].op = "wait"
    /\ Len(CallsOf("launch")) = 3
    /\ container_ids = Finished
    /\ Len(container_ids) = 2
    /\ container_name \in records

====
